---- MODULE Spec2Model ----
(***************************************************************************)
(* A model of the curve editor (curve_editor.py) and the level editor      *)
(* (level_editor.py): the control points, the ruler handles, the four      *)
(* channel presets and the look-up table, driven by the mouse events, the  *)
(* channel combo box and the reset button.                                 *)
(*                                                                         *)
(* Numbers.  Scene coordinates are whole scene units.  A normalized value  *)
(* v (a limit, a spline value) is held as the integer v * One, where       *)
(* One = SceneSize * Resolution, so that x / 250 is x * Resolution.  The   *)
(* code computes in IEEE doubles; the model evaluates the same formulas    *)
(* with the derivatives as exact fractions and the polynomial in fixed     *)
(* point, every division rounding down to 1 / One.  A LUT entry e is held  *)
(* as e * One.                                                             *)
(***************************************************************************)
EXTENDS Integers, Sequences, FiniteSets, TLC

\* ------------------------------------------------------------------------
\* Program constants
\* ------------------------------------------------------------------------
SceneSize == 250
HandleSize == 5
PointRadius == 5
bit == 8
NumChannels == 4

\* ------------------------------------------------------------------------
\* Bounds of the model
\* ------------------------------------------------------------------------
\* Fixed-point steps per scene unit
Resolution == 1000
\* Control points in the editor (three after construction)
MaxPoints == 4
\* Events handled after construction, presses and releases not counted; no
\* button is pressed once the budget is spent
MaxOps == 3

One == SceneSize * Resolution
Samples == 2 ^ bit
Channels == 0 .. (NumChannels - 1)

\* ------------------------------------------------------------------------
\* Arithmetic
\* ------------------------------------------------------------------------
Abs(a) == IF a < 0 THEN -a ELSE a
Sign(a) == IF a < 0 THEN -1 ELSE IF a > 0 THEN 1 ELSE 0
Min(a, b) == IF a <= b THEN a ELSE b
Max(a, b) == IF a >= b THEN a ELSE b

RECURSIVE GCD(_, _)
GCD(a, b) == IF b = 0 THEN a ELSE GCD(b, a % b)

\* np.clip(a, lo, hi) = minimum(maximum(a, lo), hi)
clip(a, lo, hi) == Min(Max(a, lo), hi)

\* floor(a * n / d) for d > 0, without forming a * n
MulDiv(a, n, d) == (a \div d) * n + ((a % d) * n) \div d

\* <<floor(a * n / d), a * n mod d>> for a, n >= 0, d > 0, one decimal
\* digit of n at a time
RECURSIVE MulDivMod(_, _, _)
MulDivMod(a, n, d) ==
    IF n = 0 THEN <<0, 0>>
    ELSE LET qr == MulDivMod(a, n \div 10, d)
             t == 10 * qr[2] + a * (n % 10)
         IN <<10 * qr[1] + (t \div d), t % d>>

\* The fraction f = <<num, den>> (den > 0) times n >= 0, rounded toward 0
ScaleFrac(f, n) == Sign(f[1]) * MulDivMod(Abs(f[1]), n, f[2])[1]

\* ------------------------------------------------------------------------
\* scipy.interpolate.PchipInterpolator, as called by getSpline
\* ------------------------------------------------------------------------
None == [valid |-> FALSE, x |-> <<>>, c |-> <<>>]

StrictlyIncreasing(xs) == \A k \in 1 .. (Len(xs) - 1) : xs[k] < xs[k + 1]

\* The one-sided three-point estimate at an end of the data: h0, d0 are the
\* width and rise of the end interval, h1, d1 those of its neighbour.
EdgeCase(h0, d0, h1, d1) ==
    LET num == (2 * h0 + h1) * d0 * h1 - h0 * h0 * d1
        den == h0 * h1 * (h0 + h1)
    IN IF Sign(num) # Sign(d0) THEN <<0, 1>>
       ELSE IF Sign(d0) # Sign(d1) /\ Abs(num) > 3 * Abs(d0) * h1 * (h0 + h1)
            THEN <<3 * d0, h0>>
            ELSE <<num, den>>

\* The weighted harmonic mean of the two slopes at an interior point
Interior(h0, d0, h1, d1) ==
    IF Sign(d0) # Sign(d1) \/ d0 = 0 \/ d1 = 0 THEN <<0, 1>>
    ELSE LET w1 == 2 * h1 + h0
             w2 == h1 + 2 * h0
             num == 3 * (h0 + h1) * d0 * d1
             den == w1 * h0 * d1 + w2 * h1 * d0
         IN IF den < 0 THEN <<-num, -den>> ELSE <<num, den>>

\* The derivative at each point, as a fraction <<num, den>>
FindDerivatives(xs, ys) ==
    LET n == Len(xs)
        h(k) == xs[k + 1] - xs[k]
        d(k) == ys[k + 1] - ys[k]
    IN IF n = 2 THEN [k \in 1 .. 2 |-> <<d(1), h(1)>>]
       ELSE [k \in 1 .. n |->
               IF k = 1 THEN EdgeCase(h(1), d(1), h(2), d(2))
               ELSE IF k = n THEN EdgeCase(h(n - 1), d(n - 1), h(n - 2), d(n - 2))
               ELSE Interior(h(k - 1), d(k - 1), h(k), d(k))]

\* The interpolant over points given in scene units: per interval the
\* coefficients of c3 + c2 s + c1 s^2 + c0 s^3, s = (x - x_k) / h_k, scaled by
\* Resolution.  Raises (None) unless there are two points or more with
\* strictly increasing x.
PchipInterpolator(xs, ys) ==
    IF Len(xs) < 2 \/ ~StrictlyIncreasing(xs) THEN None
    ELSE LET dk == FindDerivatives(xs, ys)
             piece(k) ==
                 LET h == xs[k + 1] - xs[k]
                     dy == (ys[k + 1] - ys[k]) * Resolution
                     a == ScaleFrac(dk[k], h * Resolution)
                     b == ScaleFrac(dk[k + 1], h * Resolution)
                 IN [c0 |-> a + b - 2 * dy,
                     c1 |-> 3 * dy - 2 * a - b,
                     c2 |-> a,
                     c3 |-> ys[k] * Resolution]
         IN [valid |-> TRUE, x |-> xs,
             c |-> [k \in 1 .. (Len(xs) - 1) |-> piece(k)]]

\* np.linspace(0, 1, Samples)[i] is i / (Samples - 1); in the scene it is
\* SceneSize * i / (Samples - 1).  StepNum / StepDen is that step reduced.
StepNum == SceneSize \div GCD(SceneSize, Samples - 1)
StepDen == (Samples - 1) \div GCD(SceneSize, Samples - 1)

\* The interval used for sample i: the last one whose left end is <= x,
\* the first one below the data, the last one above (extrapolation).
RECURSIVE FindInterval(_, _, _)
FindInterval(xs, i, k) ==
    IF k = 1 \/ xs[k] * StepDen <= StepNum * i THEN k
    ELSE FindInterval(xs, i, k - 1)

\* spline(linspace(0, 1, Samples)[i]), times One
Evaluate(spline, i) ==
    LET k == FindInterval(spline.x, i, Len(spline.x) - 1)
        sn == StepNum * i - StepDen * spline.x[k]
        sd == StepDen * (spline.x[k + 1] - spline.x[k])
        p == spline.c[k]
    IN p.c3 + MulDiv(p.c2 + MulDiv(p.c1 + MulDiv(p.c0, sn, sd), sn, sd), sn, sd)

\* ------------------------------------------------------------------------
\* Inputs: the mouse positions of the events, in scene coordinates
\* (mapToScene(event.pos()), event.scenePos()).  All lie above the ruler
\* (y < 255), so the item under the mouse is a point or the background.
\* ------------------------------------------------------------------------
\* Presses and moves: beside the centre point, beside the left boundary
\* point, near the bottom edge, and outside the background
MousePos == {<<128, 122>>, <<2, 248>>, <<200, 248>>, <<260, 100>>}

\* Double clicks: on the centre point, and on free background
ClickPos == {<<125, 125>>, <<60, 200>>}

\* The x of the mouse while a ruler handle is dragged: left of the scene,
\* inside it, right of it
RulerPos == {-20, 100, 300}

\* ------------------------------------------------------------------------
\* State
\* ------------------------------------------------------------------------
VARIABLES
    points,          \* CurveEditor.points: the PointItems, in list order
    rulerStart,      \* x of CurveEditor.rulerStart
    rulerStop,       \* x of CurveEditor.rulerStop
    presets,         \* LevelEditor.presets
    currentChannel,  \* LevelEditor.currentChannel
    channel,         \* LevelEditor.channel.currentIndex()
    lut,             \* LevelEditor.lut, one column per channel
    grab,            \* the pressed left button: the grabbed or selected item
    raised,          \* the exception the last handler raised, or "none"
    levelChanged,    \* whether the last handler emitted levelChanged
    lastOp,          \* the last handler that ran
    ops,             \* the number of state-affecting events so far
    left             \* the live state as it was when a channel was last left

vars == <<points, rulerStart, rulerStop, presets, currentChannel, channel,
          lut, grab, raised, levelChanged, lastOp, ops, left>>

\* ------------------------------------------------------------------------
\* CurveEditor
\* ------------------------------------------------------------------------
\* PointItem(coord, background), movable or not, appended to the list; z is
\* its stacking rank among the children of the background (creation order).
addPoint(pts, coord, isMovable) ==
    Append(pts, [x |-> coord[1], y |-> coord[2], movable |-> isMovable,
                 z |-> Len(pts)])

\* list.sort(key=lambda p: p.x()): p inserted behind the points with x <= p.x
RECURSIVE Insert(_, _)
Insert(s, p) ==
    IF s = <<>> THEN <<p>>
    ELSE IF s[Len(s)].x <= p.x THEN Append(s, p)
    ELSE Append(Insert(SubSeq(s, 1, Len(s) - 1), p), s[Len(s)])

RECURSIVE sort(_)
sort(s) ==
    IF s = <<>> THEN <<>>
    ELSE Insert(sort(SubSeq(s, 1, Len(s) - 1)), s[Len(s)])

\* getSpline's result; the list it leaves behind is sort(pts).  The division
\* of both coordinates by 250 is carried by the fixed-point scale.
getSpline(pts) ==
    LET s == sort(pts)
    IN PchipInterpolator([k \in 1 .. Len(s) |-> s[k].x],
                         [k \in 1 .. Len(s) |-> s[k].y])

\* drawSpline: getSpline, and the path redrawn when there is a spline.  The
\* path is only painted; what remains is the sorted list.
drawSpline(pts) == sort(pts)

getLimits(rStart, rStop) ==
    <<(rStart * One) \div SceneSize, ((rStop + HandleSize) * One) \div SceneSize>>

\* setLimits with the handle's width forgotten
setLimitsNoHandle(limits) ==
    <<(limits[1] * SceneSize) \div One, (limits[2] * SceneSize) \div One>>

\* setLimits: the new <<rulerStart, rulerStop>>
setLimits(limits) ==
    <<(limits[1] * SceneSize) \div One,
      (limits[2] * SceneSize) \div One - HandleSize>>

getState(pts, rStart, rStop) ==
    <<[k \in 1 .. Len(pts) |-> <<pts[k].x, pts[k].y>>], getLimits(rStart, rStop)>>

\* setState: the old items removed, every saved position added with
\* addPoint's default isMovable, drawSpline, setLimits.
RECURSIVE addAll(_, _, _)
addAll(pts, coords, k) ==
    IF k > Len(coords) THEN pts
    ELSE addAll(addPoint(pts, coords[k], TRUE), coords, k + 1)

\* setState without removing the old items
setStateKeep(params) ==
    [points |-> drawSpline(addAll(points, params[1], 1)),
     ruler |-> setLimits(params[2])]

setState(params) ==
    [points |-> drawSpline(addAll(<<>>, params[1], 1)),
     ruler |-> setLimits(params[2])]

\* The editor as __init__ leaves it
InitPoints ==
    drawSpline(addPoint(addPoint(addPoint(<<>>, <<-1, SceneSize>>, FALSE),
                                 <<SceneSize \div 2, SceneSize \div 2>>, TRUE),
                        <<SceneSize + 1, 0>>, FALSE))
InitRulerStart == 0
InitRulerStop == SceneSize - HandleSize

defaultState == getState(InitPoints, InitRulerStart, InitRulerStop)

\* background.contains(pos): the rectangle (0, 0, 250, 250)
BackgroundContains(m) ==
    /\ 0 <= m[1] /\ m[1] <= SceneSize
    /\ 0 <= m[2] /\ m[2] <= SceneSize

\* PointItem.boundingRect, at the item's position
boundingRect(p, m) ==
    /\ Abs(m[1] - p.x) <= PointRadius
    /\ Abs(m[2] - p.y) <= PointRadius

\* itemAt(event.pos()) in self.points
PointAt(pts, m) == \E k \in 1 .. Len(pts) : boundingRect(pts[k], m)

\* The mouse press as the scene delivers it: the topmost item under the mouse
\* that accepts it, which is a movable point; a point that is not movable
\* ignores the press, and so does the background.
NoGrab == [kind |-> "none", z |-> 0, press |-> <<0, 0>>, init |-> <<0, 0>>]

mousePress(pts, m) ==
    LET hit == {k \in 1 .. Len(pts) : pts[k].movable /\ boundingRect(pts[k], m)}
    IN IF hit = {} THEN [NoGrab EXCEPT !.kind = "background"]
       ELSE LET k == CHOOSE j \in hit : \A i \in hit : pts[i].z <= pts[j].z
            IN [kind |-> "point", z |-> pts[k].z, press |-> m,
                init |-> <<pts[k].x, pts[k].y>>]

\* QGraphicsItem.mouseMoveEvent of the grabbed movable item: it follows the
\* mouse by the distance moved since the press.
movePoint(pts, g, m) ==
    [k \in 1 .. Len(pts) |->
        IF pts[k].z = g.z
        THEN [pts[k] EXCEPT !.x = g.init[1] + m[1] - g.press[1],
                            !.y = g.init[2] + m[2] - g.press[2]]
        ELSE pts[k]]

\* ------------------------------------------------------------------------
\* LevelEditor
\* ------------------------------------------------------------------------
\* The column without the clip to the limits
lutColumnNoClip(spline, limits) ==
    [i \in 0 .. (Samples - 1) |-> (One - Evaluate(spline, i)) * Samples]

\* The column without the inversion
lutColumnNoInvert(spline, limits) ==
    [i \in 0 .. (Samples - 1) |->
        clip(Evaluate(spline, i), limits[1], limits[2]) * Samples]

\* computeLut's column: (1 - clip(spline(linspace), limits)) * 2**bit
lutColumn(spline, limits) ==
    [i \in 0 .. (Samples - 1) |->
        (One - clip(Evaluate(spline, i), limits[1], limits[2])) * Samples]

\* computeLut writing the column after the one asked for
computeLutNextColumn(l, spline, limits, index) ==
    [l EXCEPT ![(index + 1) % NumChannels] = lutColumn(spline, limits)]

computeLut(l, spline, limits, index) ==
    [l EXCEPT ![index] = lutColumn(spline, limits)]

\* viewChanged, the slot of splineChanged: computeLut on the combo box's
\* channel, then levelChanged.  Calling the spline None raises TypeError
\* before anything is written; the exception ends the slot, not the handler
\* that emitted.
viewChanged(spline, limits) ==
    IF spline.valid
    THEN /\ lut' = computeLut(lut, spline, limits, channel)
         /\ raised' = "none"
         /\ levelChanged' = TRUE
    ELSE /\ lut' = lut
         /\ raised' = "TypeError"
         /\ levelChanged' = FALSE

Quiet ==
    /\ lut' = lut
    /\ raised' = "none"
    /\ levelChanged' = FALSE

\* The positions of the points with their multiplicities
PositionBag(pts) ==
    LET pos(k) == <<pts[k].x, pts[k].y>>
    IN [c \in {pos(k) : k \in 1 .. Len(pts)} |->
           Cardinality({k \in 1 .. Len(pts) : pos(k) = c})]

NotLeft == [phase |-> 0, chan |-> 0, bag |-> <<>>, lim |-> <<0, 0>>]

\* ------------------------------------------------------------------------
\* Construction
\* ------------------------------------------------------------------------
Init ==
    /\ points = InitPoints
    /\ rulerStart = InitRulerStart
    /\ rulerStop = InitRulerStop
    /\ presets = [c \in Channels |-> defaultState]
    /\ currentChannel = 0
    /\ channel = 0
    /\ lut = [c \in Channels |-> lutColumn(getSpline(InitPoints), <<0, One>>)]
    /\ grab = NoGrab
    /\ raised = "none"
    /\ levelChanged = FALSE
    /\ lastOp = "init"
    /\ ops = 0
    /\ left = NotLeft

\* ------------------------------------------------------------------------
\* Events
\* ------------------------------------------------------------------------
\* The left button pressed over the scene
MousePress(m) ==
    /\ grab.kind = "none"
    /\ ops < MaxOps
    /\ grab' = mousePress(points, m)
    /\ lastOp' = "press"
    /\ Quiet
    /\ UNCHANGED <<points, rulerStart, rulerStop, presets, currentChannel,
                   channel, ops, left>>

\* The left button pressed on a ruler handle, which selects it
RulerPress(h) ==
    /\ grab.kind = "none"
    /\ ops < MaxOps
    /\ grab' = [NoGrab EXCEPT !.kind = h]
    /\ lastOp' = "press"
    /\ Quiet
    /\ UNCHANGED <<points, rulerStart, rulerStop, presets, currentChannel,
                   channel, ops, left>>

\* mouseReleaseEvent
MouseRelease ==
    /\ grab.kind # "none"
    /\ grab' = NoGrab
    /\ lastOp' = "release"
    /\ Quiet
    /\ UNCHANGED <<points, rulerStart, rulerStop, presets, currentChannel,
                   channel, ops, left>>

\* eventFilter, GraphicsSceneMouseDoubleClick: a point is added inside the
\* background; the scene then handles the double click as a press.
MouseDoubleClick(m) ==
    /\ grab.kind = "none"
    /\ ops < MaxOps
    /\ BackgroundContains(m) => Len(points) < MaxPoints
    /\ LET added == IF BackgroundContains(m)
                    THEN drawSpline(addPoint(points, m, TRUE))
                    ELSE points
       IN /\ points' = added
          /\ grab' = mousePress(added, m)
    /\ lastOp' = IF BackgroundContains(m) THEN "add" ELSE "press"
    /\ left' = IF BackgroundContains(m) THEN NotLeft ELSE left
    /\ ops' = ops + 1
    /\ Quiet
    /\ UNCHANGED <<rulerStart, rulerStop, presets, currentChannel, channel>>

\* mouseMoveEvent with the left button down and nothing selected: over a
\* point the spline is redrawn and emitted; then the scene gets the event,
\* unless eventFilter drops it outside the background, and the grabbed point
\* moves.
MouseMove(m) ==
    /\ grab.kind \in {"point", "background"}
    /\ ops < MaxOps
    /\ LET hit == PointAt(points, m)
           drawn == IF hit THEN drawSpline(points) ELSE points
           delivered == grab.kind = "point" /\ BackgroundContains(m)
       IN /\ IF hit
             THEN viewChanged(getSpline(points), getLimits(rulerStart, rulerStop))
             ELSE Quiet
          /\ points' = IF delivered THEN movePoint(drawn, grab, m) ELSE drawn
          /\ lastOp' = IF delivered THEN "move" ELSE "hover"
          /\ left' = IF delivered THEN NotLeft ELSE left
    /\ ops' = ops + 1
    /\ UNCHANGED <<rulerStart, rulerStop, presets, currentChannel, channel, grab>>

\* The start handle following the mouse without the clip
dragStartNoClip(x, rStop) == x

\* mouseMoveEvent with rulerStart selected
dragStart(x, rStop) == clip(x, 0, rStop - HandleSize)

RulerStartMove(x) ==
    /\ grab.kind = "rulerStart"
    /\ ops < MaxOps
    /\ rulerStart' = dragStart(x, rulerStop)
    /\ points' = sort(points)
    /\ viewChanged(getSpline(points), getLimits(rulerStart', rulerStop))
    /\ lastOp' = "rulerStart"
    /\ left' = NotLeft
    /\ ops' = ops + 1
    /\ UNCHANGED <<rulerStop, presets, currentChannel, channel, grab>>

\* mouseMoveEvent with rulerStop selected
dragStop(x, rStart) == clip(x, rStart + HandleSize, SceneSize - HandleSize)

RulerStopMove(x) ==
    /\ grab.kind = "rulerStop"
    /\ ops < MaxOps
    /\ rulerStop' = dragStop(x, rulerStart)
    /\ points' = sort(points)
    /\ viewChanged(getSpline(points), getLimits(rulerStart, rulerStop'))
    /\ lastOp' = "rulerStop"
    /\ left' = NotLeft
    /\ ops' = ops + 1
    /\ UNCHANGED <<rulerStart, presets, currentChannel, channel, grab>>

\* The reset button: CurveEditor.reset
Reset ==
    /\ grab.kind = "none"
    /\ ops < MaxOps
    /\ LET s == setState(defaultState)
       IN /\ points' = s.points
          /\ rulerStart' = s.ruler[1]
          /\ rulerStop' = s.ruler[2]
    /\ lastOp' = "reset"
    /\ left' = NotLeft
    /\ ops' = ops + 1
    /\ Quiet
    /\ UNCHANGED <<presets, currentChannel, channel, grab>>

\* The combo box moved to another entry: currentIndexChanged, changeChannel
changeChannel(index) ==
    /\ grab.kind = "none"
    /\ ops < MaxOps
    /\ index # channel
    /\ channel' = index
    /\ LET saved == [presets EXCEPT
                        ![currentChannel] = getState(points, rulerStart, rulerStop)]
           s == setState(saved[index])
       IN /\ presets' = saved
          /\ points' = s.points
          /\ rulerStart' = s.ruler[1]
          /\ rulerStop' = s.ruler[2]
    /\ currentChannel' = index
    /\ lastOp' = "switch"
    /\ left' = IF left.phase = 1 /\ left.chan = index
               THEN [left EXCEPT !.phase = 2]
               ELSE [phase |-> 1, chan |-> currentChannel,
                     bag |-> PositionBag(points),
                     lim |-> getLimits(rulerStart, rulerStop)]
    /\ ops' = ops + 1
    /\ Quiet
    /\ UNCHANGED grab

Next ==
    \/ \E m \in MousePos : MousePress(m)
    \/ \E h \in {"rulerStart", "rulerStop"} : RulerPress(h)
    \/ MouseRelease
    \/ \E m \in ClickPos : MouseDoubleClick(m)
    \/ \E m \in MousePos : MouseMove(m)
    \/ \E x \in RulerPos : RulerStartMove(x)
    \/ \E x \in RulerPos : RulerStopMove(x)
    \/ Reset
    \/ \E index \in Channels : changeChannel(index)

Spec == Init /\ [][Next]_vars

\* ------------------------------------------------------------------------
\* Properties
\* ------------------------------------------------------------------------
Limits == getLimits(rulerStart, rulerStop)
LiveState == getState(points, rulerStart, rulerStop)
LiveColumn == lutColumn(getSpline(points), Limits)
ConstructionColumn == lutColumn(getSpline(InitPoints), <<0, One>>)
Overshoots ==
    \E i \in 0 .. (Samples - 1) :
        \/ Evaluate(getSpline(points), i) > One
        \/ Evaluate(getSpline(points), i) < 0
NonIncreasing(col) == \A i \in 0 .. (Samples - 2) : col[i] >= col[i + 1]
NonDecreasing(col) == \A i \in 0 .. (Samples - 2) : col[i] <= col[i + 1]
\* |e - v| <= 1/2 for the LUT entry e
Rounds(e, v) == Abs(e - v * One) <= One \div 2
\* 5 units of the 250-unit scale, normalized
MinGap == (HandleSize * One) \div SceneSize

\* C1: a channel left and entered again with nothing done in between has
\* the point positions and the limits it had when it was left.
C1_RoundTrip ==
    left.phase = 2 =>
        /\ currentChannel = left.chan
        /\ PositionBag(points) = left.bag
        /\ Limits = left.lim

\* C1's case: a channel whose limits had been dragged was left and entered
\* again.
C1_Witness ==
    /\ left.phase = 2
    /\ lastOp = "switch"
    /\ left.lim # defaultState[2]

\* C2: whatever came before, reset leaves the points and the limits of the
\* state captured at construction, and a reset after a reset changes nothing.
C2_ResetRestoresDefault ==
    [][lastOp' = "reset" =>
          /\ getState(points', rulerStart', rulerStop') = defaultState
          /\ Len(defaultState[1]) = 3
          /\ defaultState[2] = <<0, One>>
          /\ lastOp = "reset" =>
                /\ points' = points
                /\ rulerStart' = rulerStart
                /\ rulerStop' = rulerStop]_vars

\* C2's case: a reset of a channel whose limits or points had been edited
\* (the edit is still visible in the column it wrote).
C2_Witness ==
    /\ lastOp = "reset"
    /\ lut[currentChannel] # ConstructionColumn
    /\ LiveState = defaultState

\* C3: the limits stay in [0, 1], at least MinGap apart, start below stop.
C3_RulerInvariant ==
    /\ 0 <= Limits[1] /\ Limits[1] <= One
    /\ 0 <= Limits[2] /\ Limits[2] <= One
    /\ Limits[2] - Limits[1] >= MinGap
    /\ Limits[1] < Limits[2]

\* C3's case: the start handle dragged beyond the stop handle stops at it.
C3_Witness ==
    /\ lastOp = "rulerStart"
    /\ rulerStart = rulerStop - HandleSize
    /\ rulerStop < InitRulerStop

\* C4 as claimed: no handler on the edit path raises, also with two points
\* sharing an x.
C4_NeverRaises == raised = "none"

\* C5: every column has 2^bit entries, each in [0, 2^bit].
C5_LutRange ==
    \A c \in Channels :
        /\ DOMAIN lut[c] = 0 .. (Samples - 1)
        /\ \A i \in 0 .. (Samples - 1) :
              0 <= lut[c][i] /\ lut[c][i] <= Samples * One

\* C5's case: the column just written comes from a curve that leaves [0, 1].
C5_Witness ==
    /\ levelChanged
    /\ getSpline(points).valid
    /\ Overshoots
    /\ lut[currentChannel] = LiveColumn

\* C6: the presets start as the default state; the combo box and
\* currentChannel agree; no step writes a LUT column of a channel that is
\* not live; no step but a channel switch changes the preset of one.
C6_ChannelIsolation ==
    [][/\ lastOp = "init" => \A c \in Channels : presets[c] = defaultState
       /\ currentChannel = channel
       /\ currentChannel' = channel'
       /\ \A c \in Channels \ {channel'} : lut'[c] = lut[c]
       /\ lastOp' # "switch" =>
             \A c \in Channels \ {currentChannel} : presets'[c] = presets[c]]_vars

\* C6's case: a ruler drag on channel 1 has written its column, while
\* channel 0 holds an edited preset and its own column.
C6_Witness ==
    /\ currentChannel = 1
    /\ lastOp = "rulerStart"
    /\ levelChanged
    /\ presets[0] # defaultState
    /\ lut[1] # lut[0]
    /\ lut[0] = ConstructionColumn

\* C7 as claimed: the columns computed at construction do not increase,
\* from 255 down to 0.
C7_ConstructionLutDecreasing ==
    ops = 0 =>
        \A c \in Channels :
            /\ NonIncreasing(lut[c])
            /\ Rounds(lut[c][0], Samples - 1)
            /\ Rounds(lut[c][Samples - 1], 0)

\* C7 amended: the columns computed at construction do not decrease, from 1
\* (256/252) up to 255 (256 * 251/252).
C7_ConstructionLutIncreasing ==
    ops = 0 =>
        \A c \in Channels :
            /\ NonDecreasing(lut[c])
            /\ Rounds(lut[c][0], 1)
            /\ Rounds(lut[c][Samples - 1], Samples - 1)

\* C7's case: the editor as constructed, with a column that rises.
C7_Witness ==
    /\ lastOp = "init"
    /\ LiveState = defaultState
    /\ \A c \in Channels : lut[c][0] < lut[c][Samples - 1]

\* C8 as claimed: after every state-affecting handler levelChanged was
\* emitted and the live column is the one of the live points and limits.
C8_LutFresh ==
    lastOp \in {"add", "move", "rulerStart", "rulerStop", "reset", "switch"} =>
        /\ levelChanged
        /\ getSpline(points).valid => lut[currentChannel] = LiveColumn

\* C9 as claimed: two points are not movable, one at each pinned x.
C9_BoundaryPinned ==
    LET fixed == {k \in 1 .. Len(points) : ~points[k].movable}
    IN /\ Cardinality(fixed) = 2
       /\ {points[k].x : k \in fixed} = {-1, SceneSize + 1}

\* C10 as claimed: a double click on the position of a point leaves the
\* positions as they were.
C10_DuplicateAddIsNoOp ==
    [][(lastOp' = "add" /\ grab'.press \in DOMAIN PositionBag(points)) =>
          PositionBag(points') = PositionBag(points)]_vars

====
